---- MODULE Spec2Model ----
(***************************************************************************)
(* Permit scraper (scraper.py): path resolver, record normaliser, API and  *)
(* HTML extractors, source orchestrator and export, as a state machine.    *)
(*                                                                         *)
(* Python strings are sequences of one-character strings, so that          *)
(* str.split, the hash's join and the date formats are computed, not       *)
(* assumed.  Python/JSON values are tagged records (None, Str, Num, Dict,  *)
(* List); Raise marks an exception leaving a function.                     *)
(***************************************************************************)
EXTENDS Integers, Sequences, FiniteSets, TLC

VARIABLES
    call,         \* the function-level specifications' call under test
    config,       \* Config: days_back, airtable, sources
    upstream,     \* what each source's server answers to a successful GET
    clock,        \* datetime.now(), in ticks; a run is short against a tick
    pc,           \* position in main / the running extractor
    idx,          \* main's for-loop: index of the current source
    attempt,      \* fetch_url: failed attempts of the call in progress, 0 outside it
    items,        \* the extractor's items / rows
    k,            \* the extractor's for-loop: index of the current item
    cutoff_date,  \* the extractor's cutoff_date
    records,      \* the extractor's records list
    outcome,      \* how the running extractor ended
    all_records,  \* main's all_records
    returned,     \* history: per processed source, what its extractor returned
    log,          \* history: per inspected item, what became of it
    csv_file,     \* permits.csv
    json_file,    \* airtable_payload.json
    posts         \* history: payloads POSTed to the webhook, with the reply

vars == <<call, config, upstream, clock, pc, idx, attempt, items, k, cutoff_date,
          records, outcome, all_records, returned, log, csv_file, json_file, posts>>

runVars == <<config, upstream, clock, pc, idx, attempt, items, k, cutoff_date,
             records, outcome, all_records, returned, log, csv_file, json_file, posts>>

----------------------------------------------------------------------------
(* Values *)

None == [kind |-> "none"]
Str(s) == [kind |-> "str", s |-> s]
Num(n) == [kind |-> "num", n |-> n]
Dict(f) == [kind |-> "dict", items |-> f]
List(q) == [kind |-> "list", elems |-> q]
Raise == [kind |-> "raise"]

EmptyDict == Dict(<<>>)

\* Body applied to the value of v, the value taken once (a LET would take it
\* anew at every use).
Bind(v, Body(_)) == CHOOSE out \in {Body(x) : x \in {v}} : TRUE

\* Python truthiness (`if not url`, `if list_path`, `if items`, `if v`).
Truthy(v) ==
    CASE v.kind = "none" -> FALSE
      [] v.kind = "str" -> v.s # <<>>
      [] v.kind = "num" -> v.n # 0
      [] v.kind = "dict" -> DOMAIN v.items # {}
      [] v.kind = "list" -> v.elems # <<>>
      [] OTHER -> TRUE

----------------------------------------------------------------------------
(* Bounds of the explored inputs *)

MaxPathLen == 5
MaxStrLen == 1

RECURSIVE StringsUpTo(_, _)
StringsUpTo(alphabet, n) ==
    IF n = 0 THEN {<<>>}
    ELSE LET shorter == StringsUpTo(alphabet, n - 1)
         IN shorter \cup {Append(s, c) : s \in shorter, c \in alphabet}

----------------------------------------------------------------------------
(* get_nested_value *)

\* str.split("."): the segments between the separators, "" included.
RECURSIVE split(_, _, _, _)
split(s, i, cur, acc) ==
    IF i > Len(s) THEN Append(acc, cur)
    ELSE IF s[i] = "." THEN split(s, i + 1, <<>>, Append(acc, cur))
    ELSE split(s, i + 1, Append(cur, s[i]), acc)

\* dict.get(key): the stored value, None when the key is missing.
dict_get(d, key) == IF key \in DOMAIN d.items THEN d.items[key] ELSE None

\* The for-loop of get_nested_value from key number i on.
RECURSIVE walk(_, _, _)
walk(value, keys, i) ==
    IF i > Len(keys) THEN value
    ELSE IF value.kind = "dict"
         THEN LET v == dict_get(value, keys[i])
              IN IF v = None THEN None ELSE walk(v, keys, i + 1)
         ELSE None

\* Variant: a non-mapping value met on the way is returned instead of None.
RECURSIVE walk_keep(_, _, _)
walk_keep(value, keys, i) ==
    IF i > Len(keys) THEN value
    ELSE IF value.kind = "dict"
         THEN LET v == dict_get(value, keys[i])
              IN IF v = None THEN None ELSE walk_keep(v, keys, i + 1)
         ELSE value

get_nested_value_keep(data, path) ==
    IF path.kind # "str" THEN Raise ELSE walk_keep(data, split(path.s, 1, <<>>, <<>>), 1)

\* Variant: subscripting (value[key]) instead of isinstance + .get: a missing
\* key or a non-mapping value raises.
RECURSIVE walk_subscript(_, _, _)
walk_subscript(value, keys, i) ==
    IF i > Len(keys) THEN value
    ELSE IF value.kind = "dict" /\ keys[i] \in DOMAIN value.items
         THEN walk_subscript(value.items[keys[i]], keys, i + 1)
         ELSE Raise

get_nested_value_subscript(data, path) ==
    IF path.kind # "str" THEN Raise
    ELSE walk_subscript(data, split(path.s, 1, <<>>, <<>>), 1)

\* Variant: the empty path answers the container itself.
get_nested_value_empty_is_self(data, path) ==
    IF path.kind # "str" THEN Raise
    ELSE IF path.s = <<>> THEN data
    ELSE walk(data, split(path.s, 1, <<>>, <<>>), 1)

\* path.split raises AttributeError when the configured path is no string.
get_nested_value(data, path) ==
    IF path.kind # "str" THEN Raise
    ELSE Bind(split(path.s, 1, <<>>, <<>>), LAMBDA keys : walk(data, keys, 1))

----------------------------------------------------------------------------
(* PermitRecord.generate_hash *)

Separator == "|"

\* hashlib.sha256(...).hexdigest()[:16], taken as injective on its input:
\* the digest of a string is represented by the string.
sha256_hex16(s) == s

\* Variant: the components concatenated with no separator.
generate_hash_nosep(record) ==
    sha256_hex16(record.permit_number \o record.address \o record.source_name)

generate_hash(record) ==
    sha256_hex16(record.permit_number \o <<Separator>> \o record.address
                 \o <<Separator>> \o record.source_name)

----------------------------------------------------------------------------
(* Inputs of the function-level specifications *)

Leaves == {None, Str(<<"x">>), Num(0)}
PathKeys == {<<"a">>, <<>>}

DictsOver(vals) ==
    UNION {{Dict(f) : f \in [ks -> vals]} : ks \in SUBSET PathKeys}

Depth1 == DictsOver(Leaves)
Depth2 == DictsOver(Leaves \cup Depth1)

ResolveData == Depth2 \cup {List(<<>>), Str(<<"x">>)}
ResolvePaths == StringsUpTo({"a", "."}, MaxPathLen)

HashStrings == StringsUpTo({"a", Separator}, MaxStrLen)
HashTriples ==
    [permit_number : HashStrings, address : HashStrings, source_name : HashStrings]

Idle == [op |-> "idle"]

\* The run's variables while a function-level specification is explored.
NoRun ==
    /\ config = [days_back |-> 0, airtable |-> [enabled |-> FALSE, webhook_url |-> <<>>],
                 sources |-> <<>>]
    /\ upstream = <<>>
    /\ clock = 0
    /\ pc = "none"
    /\ idx = 0
    /\ attempt = 0
    /\ items = <<>>
    /\ k = 0
    /\ cutoff_date = 0
    /\ records = <<>>
    /\ outcome = "none"
    /\ all_records = <<>>
    /\ returned = <<>>
    /\ log = <<>>
    /\ csv_file = [written |-> FALSE, rows |-> <<>>]
    /\ json_file = [written |-> FALSE, records |-> <<>>]
    /\ posts = <<>>

InitResolve ==
    /\ NoRun
    /\ call \in {[op |-> "get_nested_value", data |-> d, path |-> p,
               done |-> FALSE, result |-> None] :
              d \in ResolveData, p \in ResolvePaths}

CallGetNestedValue ==
    /\ call.op = "get_nested_value"
    /\ ~call.done
    /\ call' = [call EXCEPT !.done = TRUE,
                            !.result = get_nested_value(call.data, Str(call.path))]
    /\ UNCHANGED runVars

NextResolve == CallGetNestedValue

SpecResolve == InitResolve /\ [][NextResolve]_vars

InitHash ==
    /\ NoRun
    /\ call \in {[op |-> "generate_hash", r1 |-> a, r2 |-> b,
               done |-> FALSE, h1 |-> <<>>, h2 |-> <<>>] :
              a \in HashTriples, b \in HashTriples}

CallGenerateHash ==
    /\ call.op = "generate_hash"
    /\ ~call.done
    /\ call' = [call EXCEPT !.done = TRUE,
                            !.h1 = generate_hash(call.r1),
                            !.h2 = generate_hash(call.r2)]
    /\ UNCHANGED runVars

NextHash == CallGenerateHash

SpecHash == InitHash /\ [][NextHash]_vars

----------------------------------------------------------------------------
(* Time and dates *)

\* Wall-clock granularity of the model: ticks per calendar day; a tick count
\* that is a multiple of TicksPerDay is midnight.
TicksPerDay == 2

\* The calendar day (a day number) on which the explored runs start.
Today == 40

Digits == <<"0", "1", "2", "3", "4", "5", "6", "7", "8", "9">>
IsDigit(c) == \E i \in 1..10 : Digits[i] = c
DigitVal(c) == (CHOOSE i \in 1..10 : Digits[i] = c) - 1
TwoDigits(n) == <<Digits[(n \div 10) + 1], Digits[(n % 10) + 1]>>

\* The two spellings of a date the model's dateutil accepts: <<"I", d, d>> is
\* the ISO spelling ("2024-01-15") of day number dd, <<"H", d, d>> a
\* human-readable spelling of the same day ("January 15, 2024").  Every other
\* string makes date_parser.parse raise ValueError (ok = FALSE).  The parsed
\* datetime is midnight of that day.
date_parser_parse(s) ==
    IF Len(s) = 3 /\ s[1] \in {"I", "H"} /\ IsDigit(s[2]) /\ IsDigit(s[3])
    THEN [ok |-> TRUE, day |-> 10 * DigitVal(s[2]) + DigitVal(s[3])]
    ELSE [ok |-> FALSE, day |-> 0]

\* parsed.strftime("%Y-%m-%d")
strftime_ymd(day) == <<"I">> \o TwoDigits(day)

IsoDate(day) == <<"I">> \o TwoDigits(day)
HumanDate(day) == <<"H">> \o TwoDigits(day)

\* datetime.now().isoformat()
isoformat(now) == <<"T">> \o TwoDigits(now \div TicksPerDay) \o <<Digits[(now % TicksPerDay) + 1]>>

\* datetime.now() - timedelta(days=days_back)
cutoff_of(now, days_back) == now - days_back * TicksPerDay

----------------------------------------------------------------------------
(* PermitRecord *)

\* The str-typed fields.  "description" stands for the seven fields declared
\* exactly like it (work_class, description, city, state, zip, contractor,
\* owner).  estimated_value is left out: its validator never raises and no
\* other field depends on it.
StrFields == {"permit_number", "description", "address", "source_name", "hash_id",
              "scraped_at"}

\* str(v) of a non-string value.
py_str(v) ==
    CASE v.kind = "num" -> IF v.n < 10 THEN <<Digits[v.n + 1]>> ELSE TwoDigits(v.n)
      [] v.kind = "dict" -> <<"{", "}">>
      [] v.kind = "list" -> <<"[", "]">>
      [] OTHER -> <<"N", "o", "n", "e">>

\* The "before" validator of issue_date.
parse_issue_date(v) ==
    IF v = None \/ v = Str(<<>>) THEN None
    ELSE IF v.kind = "str"
         THEN LET parsed == date_parser_parse(v.s)
              IN IF parsed.ok THEN Str(strftime_ymd(parsed.day)) ELSE v
         ELSE IF Truthy(v) THEN Str(py_str(v)) ELSE None

\* pydantic's check of a str field: anything but a str (None included) is a
\* ValidationError.
str_field_ok(v) == v.kind = "str"

\* Whether PermitRecord(**record_data) validates.
validates(record_data) ==
    \A f \in StrFields \cap DOMAIN record_data : str_field_ok(record_data[f])

str_field(record_data, f) == IF f \in DOMAIN record_data THEN record_data[f].s ELSE <<>>

\* PermitRecord(**record_data) for validating data: defaults for what is not
\* given, keys that are no field ignored.
PermitRecord(record_data) ==
    [permit_number |-> str_field(record_data, "permit_number"),
     issue_date |-> IF "issue_date" \in DOMAIN record_data
                    THEN parse_issue_date(record_data["issue_date"]) ELSE None,
     description |-> str_field(record_data, "description"),
     address |-> str_field(record_data, "address"),
     source_name |-> str_field(record_data, "source_name"),
     hash_id |-> str_field(record_data, "hash_id"),
     scraped_at |-> str_field(record_data, "scraped_at")]

\* Variant: a hash_id the constructor was given is kept.
with_hash_unless_given(record) ==
    IF record.hash_id # <<>> THEN record
    ELSE [record EXCEPT !.hash_id = generate_hash(record)]

\* record.hash_id = record.generate_hash()
with_hash(record) == [record EXCEPT !.hash_id = generate_hash(record)]

\* Variant of the cutoff test: a date that does not parse drops the record.
is_too_old_strict(record, cutoff) ==
    /\ Truthy(record.issue_date)
    /\ LET issue_dt == date_parser_parse(record.issue_date.s)
       IN ~issue_dt.ok \/ issue_dt.day * TicksPerDay < cutoff

\* The cutoff test: `continue` is taken.
is_too_old(record, cutoff) ==
    /\ Truthy(record.issue_date)
    /\ LET issue_dt == date_parser_parse(record.issue_date.s)
       IN issue_dt.ok /\ issue_dt.day * TicksPerDay < cutoff

\* The inner try block, for record_data in hand: what becomes of the item.
normalize(record_data, cutoff) ==
    IF ~validates(record_data)
    THEN [outcome |-> "invalid", record |-> <<>>]
    ELSE Bind(PermitRecord(record_data), LAMBDA built :
         Bind(with_hash(built), LAMBDA record :
            IF is_too_old(record, cutoff)
            THEN [outcome |-> "old", record |-> <<record>>]
            ELSE [outcome |-> "kept", record |-> <<record>>]))

----------------------------------------------------------------------------
(* scrape_api_source and scrape_html_source: one item *)

\* record_data before the mapping is applied.
base_record_data(source, now) ==
    [source_name |-> Str(source.name), scraped_at |-> Str(isoformat(now))]

\* record_data[field_name] = value for each entry of the mapping: an entry
\* replaces the key of the same name already in record_data.
merge(mapped, base) == mapped @@ base

\* One pass of the API extractor's for-loop body (lines 147-175).  "raise" is
\* an exception outside the inner try: it leaves the for-loop.
api_item(source, item, now, cutoff) ==
    IF item.kind # "dict" THEN [outcome |-> "not_mapping", record |-> <<>>]
    ELSE Bind([f \in DOMAIN source.mapping |->
                   get_nested_value(item, source.mapping[f])], LAMBDA mapped :
            IF \E f \in DOMAIN mapped : mapped[f] = Raise
            THEN [outcome |-> "raise", record |-> <<>>]
            ELSE Bind(merge(mapped, base_record_data(source, now)),
                      LAMBDA record_data : normalize(record_data, cutoff)))

RECURSIVE lstrip(_)
lstrip(s) == IF s # <<>> /\ Head(s) = " " THEN lstrip(Tail(s)) ELSE s
RECURSIVE rstrip(_)
rstrip(s) == IF s # <<>> /\ s[Len(s)] = " " THEN rstrip(SubSeq(s, 1, Len(s) - 1)) ELSE s
strip(s) == rstrip(lstrip(s))

\* " ".join(parts)
RECURSIVE join_space(_)
join_space(parts) ==
    IF parts = <<>> THEN <<>>
    ELSE IF Len(parts) = 1 THEN parts[1]
    ELSE parts[1] \o <<" ">> \o join_space(Tail(parts))

\* row.css(css_selector) raises for a selector that is no string.
css_raises(css_selector) == css_selector.kind # "str"

\* row.css(css_selector).getall(): the fragments the row holds for the
\* selector, none when it matches nothing.
css_getall(row, css_selector) ==
    IF css_selector.s \in DOMAIN row THEN row[css_selector.s] ELSE <<>>

\* " ".join(v.strip() for v in values if v.strip()) if values else ""
html_value(values) ==
    Bind(SelectSeq(values, LAMBDA v : strip(v) # <<>>), LAMBDA nonblank :
         Str(join_space([i \in 1..Len(nonblank) |-> strip(nonblank[i])])))

\* One pass of the HTML extractor's for-loop body (lines 211-237).
html_row(source, row, now, cutoff) ==
    IF \E f \in DOMAIN source.fields : css_raises(source.fields[f])
    THEN [outcome |-> "raise", record |-> <<>>]
    ELSE Bind(merge([f \in DOMAIN source.fields |->
                        html_value(css_getall(row, source.fields[f]))],
                    base_record_data(source, now)),
              LAMBDA record_data : normalize(record_data, cutoff))

\* `if not isinstance(items, list): items = [items] if items else []`
as_item_list(v) ==
    IF v.kind = "list" THEN v.elems ELSE IF Truthy(v) THEN <<v>> ELSE <<>>

\* items = get_nested_value(data, list_path) if list_path else data
select_items(data, list_path) ==
    IF Truthy(list_path) THEN get_nested_value(data, list_path) ELSE data

----------------------------------------------------------------------------
(* fetch_url: tenacity's stop_after_attempt(3) *)

stop_after_attempt == 3

\* Variant: one attempt more than configured.
should_retry_off_by_one(attempt_number) == attempt_number <= stop_after_attempt

\* tenacity retries while the attempt number is below the stop count.
should_retry(attempt_number) == attempt_number < stop_after_attempt

----------------------------------------------------------------------------
(* The explored configurations: sources and what their servers answer *)

MaxSources == 2

EmptyMap == [f \in {} |-> None]

ApiSource(name, url, list_path, mapping) ==
    [name |-> name, mode |-> "api", url |-> url, list_path |-> list_path,
     mapping |-> mapping, row_selector |-> <<>>, fields |-> EmptyMap]

HtmlSource(name, url, row_selector, fields) ==
    [name |-> name, mode |-> "html", url |-> url, list_path |-> Str(<<>>),
     mapping |-> EmptyMap, row_selector |-> row_selector, fields |-> fields]

Json(data) == [json |-> data, rows |-> <<>>]
Html(rows) == [json |-> Raise, rows |-> rows]

P1 == Str(<<"P", "1">>)
P2 == Str(<<"P", "2">>)
P3 == Str(<<"P", "3">>)
P4 == Str(<<"P", "4">>)
MainSt == Str(<<"M">>)
Url == <<"u">>

\* {"n": n, "a": {"s": street}, "d": d}
Item(n, street, d) ==
    Dict((<<"n">> :> n) @@ (<<"a">> :> Dict(<<"s">> :> street)) @@ (<<"d">> :> d))

StdMapping ==
    ("permit_number" :> Str(<<"n">>)) @@ ("address" :> Str(<<"a", ".", "s">>))
    @@ ("issue_date" :> Str(<<"d">>))

\* A mapping that also names the derived and provenance fields.
FullMapping ==
    StdMapping @@ ("hash_id" :> Str(<<"h">>)) @@ ("source_name" :> Str(<<"o">>))
    @@ ("scraped_at" :> Str(<<"t">>))

\* A mapping whose address path is a number (a YAML slip): path.split raises.
BadMapping == ("permit_number" :> Str(<<"n">>)) @@ ("address" :> Num(7))

StdFields ==
    ("permit_number" :> Str(<<"1">>)) @@ ("issue_date" :> Str(<<"2">>))
    @@ ("address" :> Str(<<"3">>))

\* Fields that also name the derived hash_id.
HashedFields == StdFields @@ ("hash_id" :> Str(<<"4">>))

Row(n, d, street) == (<<"1">> :> n) @@ (<<"2">> :> d) @@ (<<"3">> :> street)

RecentBody ==
    Dict(<<"r">> :> List(<<Item(P1, MainSt, Str(IsoDate(Today))),
                          Item(P1, MainSt, Str(IsoDate(Today))),
                          Item(P2, MainSt, Str(HumanDate(Today - 29))),
                          Item(P3, MainSt, Str(IsoDate(Today - 31)))>>))

MixedBody ==
    Dict(<<"r">> :> List(<<Item(P1, MainSt, None),
                          Item(P2, MainSt, Str(<<"z", "z">>)),
                          Dict(<<"n">> :> P3),
                          Str(<<"x">>),
                          Item(P4, MainSt, Str(IsoDate(Today - 30)))>>))

TaggedBody ==
    List(<<Dict((<<"n">> :> P1) @@ (<<"a">> :> Dict(<<"s">> :> MainSt))
                @@ (<<"h">> :> Str(<<"f", "f">>)) @@ (<<"o">> :> Str(<<"Z">>))
                @@ (<<"t">> :> Str(<<"t">>))),
           Dict((<<"n">> :> P2) @@ (<<"a">> :> Dict(<<"s">> :> MainSt))
                @@ (<<"h">> :> Str(<<"f", "f">>)) @@ (<<"t">> :> Str(<<"t">>)))>>)

Catalog ==
    << [source |-> ApiSource(<<"A">>, Url, Str(<<"r">>), StdMapping),
        upstream |-> Json(RecentBody)],
       [source |-> ApiSource(<<"B">>, Url, Str(<<"r">>), StdMapping),
        upstream |-> Json(MixedBody)],
       [source |-> ApiSource(<<"C">>, <<>>, Str(<<"r">>), StdMapping),
        upstream |-> Json(RecentBody)],
       [source |-> ApiSource(<<"D">>, Url, Str(<<"q">>), StdMapping),
        upstream |-> Json(RecentBody)],
       [source |-> ApiSource(<<"E">>, Url, Str(<<>>), BadMapping),
        upstream |-> Json(List(<<Str(<<"x">>), Item(P1, MainSt, None),
                                 Item(P2, MainSt, None)>>))],
       [source |-> ApiSource(<<"F">>, Url, Str(<<>>), FullMapping),
        upstream |-> Json(TaggedBody)],
       [source |-> ApiSource(<<"A">>, Url, Str(<<"r">>), StdMapping),
        upstream |-> Json(Dict(<<"r">> :> Item(P1, MainSt, Str(IsoDate(Today)))))],
       [source |-> ApiSource(<<"J">>, Url, Str(<<"r">>), StdMapping),
        upstream |-> Json(Raise)],
       [source |-> HtmlSource(<<"H">>, Url, <<"t", "r">>, HashedFields),
        upstream |-> Html(<<Row(<<<<"P", "1">>>>, <<IsoDate(Today)>>, <<<<"M">>>>)
                              @@ (<<"4">> :> <<<<"f", "f">>>>),
                           Row(<<<<"P", "2">>>>, <<HumanDate(Today - 31)>>, <<<<"M">>>>),
                           Row(<<<<" ", "P">>, <<" ">>, <<"3", " ">>>>, <<>>, <<<<"M">>>>)>>)],
       [source |-> HtmlSource(<<"G">>, Url, <<>>, StdFields),
        upstream |-> Html(<<>>)],
       [source |-> HtmlSource(<<"K">>, <<>>, <<"t", "r">>, StdFields),
        upstream |-> Html(<<>>)],
       [source |-> [ApiSource(<<"L">>, Url, Str(<<"r">>), StdMapping) EXCEPT !.mode = "ftp"],
        upstream |-> Json(RecentBody)] >>

Scenarios == UNION {[1..n -> 1..Len(Catalog)] : n \in 0..MaxSources}

PushOff == [enabled |-> FALSE, webhook_url |-> <<>>]
PushNoWebhook == [enabled |-> TRUE, webhook_url |-> <<>>]
PushOn == [enabled |-> TRUE, webhook_url |-> <<"w">>]

\* The explored settings: days_back, the airtable section, and the time of
\* day of the run (tick 0 is midnight sharp).
RunSettings ==
    {[days_back |-> 30, airtable |-> PushOff, tick |-> 1],
     [days_back |-> 30, airtable |-> PushOn, tick |-> 0],
     [days_back |-> 0, airtable |-> PushNoWebhook, tick |-> 1],
     [days_back |-> 0, airtable |-> PushOff, tick |-> 0]}

Init ==
    /\ call = Idle
    /\ \E sc \in Scenarios :
          /\ \E s \in RunSettings :
                /\ config = [days_back |-> s.days_back, airtable |-> s.airtable,
                             sources |-> [i \in 1..Len(sc) |-> Catalog[sc[i]].source]]
                /\ clock = Today * TicksPerDay + s.tick
          /\ upstream = [i \in 1..Len(sc) |-> Catalog[sc[i]].upstream]
    /\ pc = "loop"
    /\ idx = 1
    /\ attempt = 0
    /\ items = <<>>
    /\ k = 0
    /\ cutoff_date = 0
    /\ records = <<>>
    /\ outcome = "none"
    /\ all_records = <<>>
    /\ returned = <<>>
    /\ log = <<>>
    /\ csv_file = [written |-> FALSE, rows |-> <<>>]
    /\ json_file = [written |-> FALSE, records |-> <<>>]
    /\ posts = <<>>

----------------------------------------------------------------------------
(* main: the loop over the sources *)

Source == config.sources[idx]
InLoop == pc = "loop" /\ idx <= Len(config.sources)

\* Variant: the url guard forgotten.
lacks_url_never(source) == FALSE

\* `if not url`
lacks_url(source) == source.url = <<>>

\* `if not row_selector`
lacks_row_selector(source) == source.row_selector = <<>>

\* all_records.extend(records)
extend(all, recs) == all \o recs

fileVars == <<csv_file, json_file, posts>>

\* The extractor returns `records` as they are, with how it ended.
Leave(how) ==
    /\ pc' = "ret"
    /\ outcome' = how

\* Lines 120-132 and 185-200: the extractor is entered; a source lacking its
\* url (or, for html, its row_selector) returns its empty list at once.
EnterNoFetch(mode, how) ==
    /\ InLoop
    /\ Source.mode = mode
    /\ records' = <<>>
    /\ attempt' = 0
    /\ items' = <<>>
    /\ k' = 0
    /\ Leave(how)
    /\ UNCHANGED <<call, config, upstream, clock, idx, cutoff_date, all_records,
                   returned, log, fileVars>>

ApiNoUrl == InLoop /\ lacks_url(Source) /\ EnterNoFetch("api", "no_url")

HtmlNoUrl == InLoop /\ lacks_url(Source) /\ EnterNoFetch("html", "no_url")

HtmlNoSelector ==
    /\ InLoop
    /\ ~lacks_url(Source)
    /\ lacks_row_selector(Source)
    /\ EnterNoFetch("html", "no_row_selector")

\* Lines 134-136 and 202-204: the try block is entered and fetch_url called.
BeginFetch ==
    /\ InLoop
    /\ \/ Source.mode = "api" /\ ~lacks_url(Source)
       \/ Source.mode = "html" /\ ~lacks_url(Source) /\ ~lacks_row_selector(Source)
    /\ records' = <<>>
    /\ attempt' = 0
    /\ items' = <<>>
    /\ k' = 0
    /\ pc' = "fetch"
    /\ UNCHANGED <<call, config, upstream, clock, idx, cutoff_date, outcome,
                   all_records, returned, log, fileVars>>

\* Lines 296-298: an unknown mode is warned about and skipped.
UnknownMode ==
    /\ InLoop
    /\ Source.mode \notin {"api", "html"}
    /\ returned' = Append(returned, [outcome |-> "unknown_mode", records |-> <<>>])
    /\ idx' = idx + 1
    /\ UNCHANGED <<call, config, upstream, clock, pc, attempt, items, k, cutoff_date,
                   records, outcome, all_records, log, fileVars>>

\* fetch_url, one attempt that succeeds: the response is returned.
FetchOk ==
    /\ pc = "fetch"
    /\ attempt' = 0
    /\ pc' = "parse"
    /\ UNCHANGED <<call, config, upstream, clock, idx, items, k, cutoff_date, records,
                   outcome, all_records, returned, log, fileVars>>

\* fetch_url, one attempt that raises, be it client.get (timeout, connection
\* error) or response.raise_for_status() (HTTPStatusError): tenacity tries
\* again or, the attempts used up, raises RetryError, which the extractor's
\* `except Exception` takes.
FetchRaises ==
    /\ pc = "fetch"
    /\ IF should_retry(attempt + 1)
       THEN attempt' = attempt + 1 /\ UNCHANGED <<pc, outcome>>
       ELSE attempt' = 0 /\ Leave("fetch_failed")
    /\ UNCHANGED <<call, config, upstream, clock, idx, items, k, cutoff_date, records,
                   all_records, returned, log, fileVars>>

\* Lines 137-144: response.json(), the item list, the cutoff.
ApiParse ==
    /\ pc = "parse"
    /\ Source.mode = "api"
    /\ \E selected \in {IF upstream[idx].json = Raise THEN Raise
                         ELSE select_items(upstream[idx].json, Source.list_path)} :
          IF selected = Raise
          THEN /\ Leave("error")
               /\ UNCHANGED <<items, k, cutoff_date>>
          ELSE /\ items' = as_item_list(selected)
               /\ cutoff_date' = cutoff_of(clock, config.days_back)
               /\ k' = 1
               /\ pc' = "items"
               /\ UNCHANGED outcome
    /\ UNCHANGED <<call, config, upstream, clock, idx, attempt, records, all_records,
                   returned, log, fileVars>>

\* Lines 205-208: the rows the row_selector matches, the cutoff.
HtmlParse ==
    /\ pc = "parse"
    /\ Source.mode = "html"
    /\ items' = upstream[idx].rows
    /\ cutoff_date' = cutoff_of(clock, config.days_back)
    /\ k' = 1
    /\ pc' = "items"
    /\ UNCHANGED <<call, config, upstream, clock, idx, attempt, records, outcome,
                   all_records, returned, log, fileVars>>

\* One pass of the for-loop over the items, with result r for the item.
Step(r, shown) ==
    /\ log' = Append(log, [src |-> idx, pos |-> k, item |-> shown,
                           outcome |-> r.outcome, record |-> r.record,
                           cutoff |-> cutoff_date])
    /\ IF r.outcome = "raise"
       THEN /\ Leave("error")
            /\ UNCHANGED <<k, records>>
       ELSE /\ k' = k + 1
            /\ records' = IF r.outcome = "kept"
                          THEN Append(records, r.record[1]) ELSE records
            /\ UNCHANGED <<pc, outcome>>
    /\ UNCHANGED <<call, config, upstream, clock, idx, attempt, items, cutoff_date,
                   all_records, returned, fileVars>>

ApiItem ==
    /\ pc = "items"
    /\ Source.mode = "api"
    /\ k <= Len(items)
    /\ \E r \in {api_item(Source, items[k], clock, cutoff_date)} : Step(r, items[k])

HtmlRow ==
    /\ pc = "items"
    /\ Source.mode = "html"
    /\ k <= Len(items)
    /\ \E r \in {html_row(Source, items[k], clock, cutoff_date)} :
          Step(r, [kind |-> "row", cells |-> items[k]])

\* The for-loop is exhausted: the try block ends normally.
ItemsDone ==
    /\ pc = "items"
    /\ k > Len(items)
    /\ Leave("ok")
    /\ UNCHANGED <<call, config, upstream, clock, idx, attempt, items, k, cutoff_date,
                   records, all_records, returned, log, fileVars>>

\* Lines 182/244 and 300-301: `return records`, then all_records.extend.
Return ==
    /\ pc = "ret"
    /\ all_records' = extend(all_records, records)
    /\ returned' = Append(returned, [outcome |-> outcome, records |-> records])
    /\ idx' = idx + 1
    /\ pc' = "loop"
    /\ UNCHANGED <<call, config, upstream, clock, attempt, items, k, cutoff_date,
                   records, outcome, log, fileVars>>

\* Line 303: the loop over the sources is over.
LoopEnd ==
    /\ pc = "loop"
    /\ idx > Len(config.sources)
    /\ pc' = "export"
    /\ UNCHANGED <<call, config, upstream, clock, idx, attempt, items, k, cutoff_date,
                   records, outcome, all_records, returned, log, fileVars>>

----------------------------------------------------------------------------
(* main: export and push *)

\* Variant: the payload file is written only for the push integration.
writes_files_when_pushing(cfg, recs) == recs # <<>> /\ cfg.airtable.enabled

\* `if all_records:` guards permits.csv, airtable_payload.json and the push.
writes_files(cfg, recs) == recs # <<>>

\* [r.model_dump() for r in all_records]
model_dump_all(recs) == recs

\* Lines 306-310: permits.csv.
ExportCsv ==
    /\ pc = "export"
    /\ writes_files(config, all_records)
    /\ csv_file' = [written |-> TRUE, rows |-> model_dump_all(all_records)]
    /\ pc' = "json"
    /\ UNCHANGED <<call, config, upstream, clock, idx, attempt, items, k, cutoff_date,
                   records, outcome, all_records, returned, log, json_file, posts>>

\* Lines 327-328: "No permits found, skipping export".
SkipExport ==
    /\ pc = "export"
    /\ ~writes_files(config, all_records)
    /\ pc' = "done"
    /\ UNCHANGED <<call, config, upstream, clock, idx, attempt, items, k, cutoff_date,
                   records, outcome, all_records, returned, log, fileVars>>

\* Variant: airtable_upsert is called whatever the airtable section says.
pushes_always(cfg) == TRUE

\* Line 324: `if config.airtable.get("enabled"):`
pushes(cfg) == cfg.airtable.enabled

\* Lines 312-324: airtable_payload.json, then the push if enabled.
WriteJson ==
    /\ pc = "json"
    /\ json_file' = [written |-> TRUE, records |-> model_dump_all(all_records)]
    /\ pc' = IF pushes(config) THEN "push" ELSE "done"
    /\ UNCHANGED <<call, config, upstream, clock, idx, attempt, items, k, cutoff_date,
                   records, outcome, all_records, returned, log, csv_file, posts>>

\* airtable_upsert, lines 249-251: no webhook URL, a warning and False.
PushNoUrl ==
    /\ pc = "push"
    /\ config.airtable.webhook_url = <<>>
    /\ pc' = "done"
    /\ UNCHANGED <<call, config, upstream, clock, idx, attempt, items, k, cutoff_date,
                   records, outcome, all_records, returned, log, fileVars>>

\* airtable_upsert, lines 253-267: the POST, answered or failing.
Post(ok) ==
    /\ pc = "push"
    /\ config.airtable.webhook_url # <<>>
    /\ posts' = Append(posts, [payload |-> model_dump_all(all_records), ok |-> ok])
    /\ pc' = "done"
    /\ UNCHANGED <<call, config, upstream, clock, idx, attempt, items, k, cutoff_date,
                   records, outcome, all_records, returned, log, csv_file, json_file>>

PushOk == Post(TRUE)

\* client.post or raise_for_status raises: caught, False returned.
PushFails == Post(FALSE)

Next ==
    \/ ApiNoUrl
    \/ HtmlNoUrl
    \/ HtmlNoSelector
    \/ BeginFetch
    \/ UnknownMode
    \/ FetchOk
    \/ FetchRaises
    \/ ApiParse
    \/ HtmlParse
    \/ ApiItem
    \/ HtmlRow
    \/ ItemsDone
    \/ Return
    \/ LoopEnd
    \/ ExportCsv
    \/ SkipExport
    \/ WriteJson
    \/ PushNoUrl
    \/ PushOk
    \/ PushFails

Spec == Init /\ [][Next]_vars

\* Every step of the run ends (the GET has a timeout, tenacity's waits are
\* bounded), so the run does not stand still while a step is possible.
SpecFair == Spec /\ WF_vars(Next)

----------------------------------------------------------------------------
(* What the claims speak of *)

Finished == pc \in {"export", "json", "push", "done"}
BetweenSources == pc = "loop" \/ Finished

HasDuplicateHash(recs) ==
    \E i, j \in 1..Len(recs) : i # j /\ recs[i].hash_id = recs[j].hash_id

\* The item list an API source gets from a fetched body; Raise when
\* response.json() or the list path raises.
FetchedItems(i) ==
    LET data == upstream[i].json
    IN IF data = Raise THEN Raise ELSE select_items(data, config.sources[i].list_path)

\* The records an extractor run on its own returns for source i once the
\* fetch has succeeded: the survivors of the items up to the first exception
\* outside the inner try.
RECURSIVE SurvivorsFrom(_, _, _, _)
SurvivorsFrom(i, list, j, acc) ==
    IF j > Len(list) THEN acc
    ELSE LET src == config.sources[i]
             cut == cutoff_of(clock, config.days_back)
             r == IF src.mode = "api" THEN api_item(src, list[j], clock, cut)
                  ELSE html_row(src, list[j], clock, cut)
         IN IF r.outcome = "raise" THEN acc
            ELSE SurvivorsFrom(i, list, j + 1,
                               IF r.outcome = "kept" THEN Append(acc, r.record[1]) ELSE acc)

Alone(i) ==
    LET src == config.sources[i]
    IN CASE src.mode = "api" ->
              IF FetchedItems(i) = Raise THEN <<>>
              ELSE SurvivorsFrom(i, as_item_list(FetchedItems(i)), 1, <<>>)
         [] src.mode = "html" -> SurvivorsFrom(i, upstream[i].rows, 1, <<>>)
         [] OTHER -> <<>>

\* Source i is one of the failing sources of C4.
NoUrl(i) == config.sources[i].mode \in {"api", "html"} /\ config.sources[i].url = <<>>
NoRowSelector(i) ==
    config.sources[i].mode = "html" /\ config.sources[i].row_selector = <<>>
ListPathUnresolved(i) ==
    /\ config.sources[i].mode = "api"
    /\ Truthy(config.sources[i].list_path)
    /\ FetchedItems(i) = None
SourceFails(i) ==
    \/ NoUrl(i)
    \/ NoRowSelector(i)
    \/ returned[i].outcome = "fetch_failed"
    \/ ListPathUnresolved(i)

\* The aggregate of the first n sources with the failing ones taken out.
RECURSIVE WithoutFailing(_)
WithoutFailing(n) ==
    IF n = 0 THEN <<>>
    ELSE WithoutFailing(n - 1) \o (IF SourceFails(n) THEN <<>> ELSE Alone(n))

----------------------------------------------------------------------------
(* C1 *)

\* C1: what a run exports (permits.csv, the payload file, the webhook POST)
\* holds at most one record per hash_id.
C1_ExportHasOneRecordPerHash ==
    /\ csv_file.written => ~HasDuplicateHash(csv_file.rows)
    /\ json_file.written => ~HasDuplicateHash(json_file.records)
    /\ \A p \in 1..Len(posts) : ~HasDuplicateHash(posts[p].payload)

----------------------------------------------------------------------------
(* C2 *)

\* A str-typed field of the mapping resolves to absent for the logged item,
\* and nothing else in the item stands in the way of a record.
MissesStringField(e, f) ==
    LET src == config.sources[e.src]
    IN /\ src.mode = "api"
       /\ e.item.kind = "dict"
       /\ f \in (DOMAIN src.mapping) \cap (StrFields \ {"hash_id"})
       /\ get_nested_value(e.item, src.mapping[f]) = None
       /\ \A g \in DOMAIN src.mapping :
             get_nested_value(e.item, src.mapping[g]).kind \in {"str", "none"}

\* C2: an item of the API extractor whose mapped string field is absent
\* still yields a record, with that field the empty string.
C2_MissingFieldYieldsEmptyString ==
    \A n \in 1..Len(log) : \A f \in StrFields :
        MissesStringField(log[n], f) =>
            /\ log[n].outcome \in {"kept", "old"}
            /\ log[n].record[1][f] = <<>>

----------------------------------------------------------------------------
(* C3 *)

DayOfRun == clock \div TicksPerDay

IssueAbsent(rec) == rec.issue_date = None
IssueUnparsable(rec) ==
    rec.issue_date.kind = "str" /\ ~date_parser_parse(rec.issue_date.s).ok
IssueDay(rec) == date_parser_parse(rec.issue_date.s).day
IssueParsable(rec) ==
    rec.issue_date.kind = "str" /\ date_parser_parse(rec.issue_date.s).ok

InReturned(e) ==
    \E m \in 1..Len(returned[e.src].records) : returned[e.src].records[m] = e.record[1]

\* C3: of the records either extractor builds, one with no issue_date or an
\* unparsable one is returned, one dated inside the window is returned, and
\* one dated more than days_back days before the run is not.
C3_CutoffTest ==
    \A n \in 1..Len(log) :
        LET e == log[n] IN
        (e.outcome \in {"kept", "old"} /\ e.src <= Len(returned)) =>
            LET rec == e.record[1] IN
            /\ (IssueAbsent(rec) \/ IssueUnparsable(rec)) => InReturned(e)
            /\ (IssueParsable(rec) /\ IssueDay(rec) > DayOfRun - config.days_back)
                  => InReturned(e)
            /\ (IssueParsable(rec) /\ IssueDay(rec) < DayOfRun - config.days_back)
                  => ~InReturned(e)

C3_Witness ==
    /\ config.days_back = 30
    /\ \E a, b, c, d \in 1..Len(log) :
          /\ \A n \in {a, b, c, d} :
                log[n].src <= Len(returned) /\ log[n].outcome \in {"kept", "old"}
          /\ IssueAbsent(log[a].record[1]) /\ InReturned(log[a])
          /\ IssueUnparsable(log[b].record[1]) /\ InReturned(log[b])
          /\ IssueParsable(log[c].record[1])
          /\ IssueDay(log[c].record[1]) = DayOfRun - 29 /\ InReturned(log[c])
          /\ IssueParsable(log[d].record[1])
          /\ IssueDay(log[d].record[1]) = DayOfRun - 31 /\ ~InReturned(log[d])

----------------------------------------------------------------------------
(* C4 *)

\* C4: a failing source (no url, no row_selector, fetch failed, list path
\* unresolved) returns no records, and without its url or row_selector is
\* never fetched; the aggregate is that of the other sources, in order, as
\* if the failing ones were not configured; every source is processed.
C4_SourceErrorsIsolated ==
    /\ pc \in {"fetch", "parse", "items"} => ~NoUrl(idx) /\ ~NoRowSelector(idx)
    /\ pc = "ret" /\ (NoUrl(idx) \/ NoRowSelector(idx)) => records = <<>>
    /\ \A i \in 1..Len(returned) : SourceFails(i) => returned[i].records = <<>>
    /\ BetweenSources => all_records = WithoutFailing(Len(returned))
    /\ Finished => Len(returned) = Len(config.sources)

C4_Witness ==
    /\ pc = "done"
    /\ Len(returned) = 2
    /\ returned[1].outcome = "fetch_failed"
    /\ returned[2].outcome = "ok"
    /\ all_records = returned[2].records
    /\ all_records # <<>>

----------------------------------------------------------------------------
(* C5 *)

\* All the surviving records of API source i: every item is looked at.
AllSurvivors(i) ==
    LET list == IF FetchedItems(i) = Raise THEN <<>> ELSE as_item_list(FetchedItems(i))
        cut == cutoff_of(clock, config.days_back)
        kept == SelectSeq(list, LAMBDA it :
                    api_item(config.sources[i], it, clock, cut).outcome = "kept")
    IN [j \in 1..Len(kept) |-> api_item(config.sources[i], kept[j], clock, cut).record[1]]

\* C5: scrape_api_source returns the empty list when it ended in a
\* source-level failure, and otherwise all the surviving records of the
\* source: never a strict non-empty prefix.
C5_AllOrNothing ==
    (pc = "ret" /\ Source.mode = "api") =>
        /\ outcome \in {"no_url", "fetch_failed", "error"} => records = <<>>
        /\ records = <<>> \/ records = AllSurvivors(idx)

\* The failure comes in mid-stream, after items have been looked at.
C5_Witness ==
    /\ pc = "ret"
    /\ Source.mode = "api"
    /\ outcome = "error"
    /\ k > 1
    /\ k < Len(items)
    /\ records = <<>>

----------------------------------------------------------------------------
(* C6 *)

HasSeparator(s) == \E i \in 1..Len(s) : s[i] = Separator

\* C6 as stated: equal hash_id exactly when the three components are equal,
\* whatever the components hold.
C6_HashFaithfulForAllStrings ==
    (call.op = "generate_hash" /\ call.done) =>
        (call.h1 = call.h2 <=> call.r1 = call.r2)

SeparatorFree(r) == ~HasSeparator(r.permit_number) /\ ~HasSeparator(r.address)

\* C6 as amended: equal hash_id exactly when the three components are equal,
\* for records whose permit_number and address hold no separator character.
C6_HashFaithfulWithoutSeparator ==
    (call.op = "generate_hash" /\ call.done
     /\ SeparatorFree(call.r1) /\ SeparatorFree(call.r2)) =>
        (call.h1 = call.h2 <=> call.r1 = call.r2)

C6_Witness ==
    /\ call.op = "generate_hash"
    /\ call.done
    /\ SeparatorFree(call.r1)
    /\ SeparatorFree(call.r2)
    /\ call.r1.permit_number # <<>>
    /\ call.r1.permit_number = call.r2.permit_number
    /\ call.r1.address = call.r2.address
    /\ call.r1.source_name # call.r2.source_name
    /\ HasSeparator(call.r2.source_name)
    /\ call.h1 # call.h2

----------------------------------------------------------------------------
(* C7 *)

\* The segments of a dotted path, by the places of its dots.
DotPositions(p) == {i \in 1..Len(p) : p[i] = "."}
SegmentCount(p) == Cardinality(DotPositions(p)) + 1
Boundary(p, j) ==
    IF j = 0 THEN 0
    ELSE IF j = SegmentCount(p) THEN Len(p) + 1
    ELSE CHOOSE i \in DotPositions(p) :
             Cardinality({d \in DotPositions(p) : d <= i}) = j
Segment(p, j) == SubSeq(p, Boundary(p, j - 1) + 1, Boundary(p, j) - 1)

\* The value reached from v by segments j, j+1, ... of p; None from the
\* first segment that is missing or that meets a value that is no mapping.
RECURSIVE Reach(_, _, _)
Reach(v, p, j) ==
    IF j > SegmentCount(p) THEN v
    ELSE IF v.kind = "dict" /\ Segment(p, j) \in DOMAIN v.items
         THEN Reach(v.items[Segment(p, j)], p, j + 1)
         ELSE None

\* C7: for a non-empty dotted path, get_nested_value returns the value
\* reached segment by segment, None from the first miss on, and never raises.
C7_ResolveFollowsSegments ==
    (call.op = "get_nested_value" /\ call.done /\ call.path # <<>>) =>
        /\ call.result # Raise
        /\ call.result = Reach(call.data, call.path, 1)

C7_Witness ==
    /\ call.op = "get_nested_value"
    /\ call.done
    /\ call.path = <<"a", ".", "a">>
    /\ call.result = Str(<<"x">>)

----------------------------------------------------------------------------
(* C8 *)

\* C8 as stated: the empty path resolves to the container itself.
C8_EmptyPathIsContainer ==
    (call.op = "get_nested_value" /\ call.done /\ call.path = <<>>) =>
        call.result = call.data

\* C8 as amended: the empty path is the single segment "": the result is
\* the container's value under the key "", None when there is none or the
\* container is no mapping.
C8_EmptyPathIsEmptyKey ==
    (call.op = "get_nested_value" /\ call.done /\ call.path = <<>>) =>
        call.result = IF call.data.kind = "dict" /\ <<>> \in DOMAIN call.data.items
                      THEN call.data.items[<<>>]
                      ELSE None

C8_Witness ==
    /\ call.op = "get_nested_value"
    /\ call.done
    /\ call.path = <<>>
    /\ call.data.kind = "dict"
    /\ DOMAIN call.data.items = {<<"a">>}
    /\ call.result = None

----------------------------------------------------------------------------
(* C9 *)

\* C9 as stated: a finished run has written the payload file, whatever the
\* push setting and the number of records.
C9_PayloadAlwaysWritten ==
    pc = "done" =>
        json_file.written /\ json_file.records = model_dump_all(all_records)

\* C9 as amended: a finished run has written the payload file exactly when
\* at least one record survived, whatever the push setting.
C9_PayloadWrittenIffRecords ==
    pc = "done" =>
        /\ json_file.written <=> all_records # <<>>
        /\ json_file.written => json_file.records = model_dump_all(all_records)

C9_Witness ==
    /\ pc = "done"
    /\ ~config.airtable.enabled
    /\ all_records # <<>>
    /\ json_file.written
    /\ posts = <<>>

----------------------------------------------------------------------------
(* C10 *)

\* An attempt starts with fewer than three failed ones behind it.
C10_Bounded ==
    /\ attempt < stop_after_attempt
    /\ pc # "fetch" => attempt = 0
    /\ (pc = "ret" /\ outcome = "fetch_failed") => records = <<>>

\* Attempts are made only within fetch_url, one at a time; the source is
\* given up exactly when the third one fails; nothing is fetched again after
\* a success; a source that has ended is followed by the next one.
C10_FetchStep ==
    /\ attempt' # attempt => pc = "fetch"
    /\ (pc = "fetch" /\ pc' = "fetch") => attempt' = attempt + 1
    /\ (pc = "fetch" /\ pc' = "ret") =>
          attempt + 1 = stop_after_attempt /\ outcome' = "fetch_failed"
    /\ pc \in {"parse", "items", "ret"} => pc' # "fetch"
    /\ pc = "ret" => pc' = "loop" /\ idx' = idx + 1

\* C10: at most three fetch attempts per source, none after a success or
\* for a failure of parsing or normalisation; the third failure ends the
\* source with no records and the run goes on, reaching the export step.
C10_RetriesBoundedRunEnds ==
    /\ []C10_Bounded
    /\ [][C10_FetchStep]_vars
    /\ <>Finished

C10_Witness ==
    /\ pc = "export"
    /\ Len(returned) = 2
    /\ returned[1].outcome = "fetch_failed"
    /\ returned[2].outcome = "ok"
    /\ returned[2].records # <<>>

----------------------------------------------------------------------------
(* C11 *)

\* The files are written with every source processed, from the final record
\* set, permits.csv first; airtable_upsert is entered, and a POST made, only
\* with the airtable section enabled and both files written.
C11_Order ==
    /\ csv_file.written =>
          /\ idx > Len(config.sources)
          /\ Len(returned) = Len(config.sources)
          /\ csv_file.rows = model_dump_all(all_records)
    /\ json_file.written =>
          /\ csv_file.written
          /\ json_file.records = model_dump_all(all_records)
    /\ pc = "push" => config.airtable.enabled /\ csv_file.written /\ json_file.written
    /\ posts # <<>> =>
          /\ config.airtable.enabled
          /\ csv_file.written /\ json_file.written
          /\ pc = "done"

\* Once a file is written neither the record set nor the file changes; the
\* push, with its URL missing or its POST failing, ends the run normally and
\* touches no file.
C11_Step ==
    /\ csv_file.written => all_records' = all_records /\ csv_file' = csv_file
    /\ json_file.written => json_file' = json_file
    /\ pc = "push" => pc' = "done" /\ csv_file' = csv_file /\ json_file' = json_file
    /\ posts' # posts => pc = "push"

\* C11: no output file is written before every source is processed and the
\* record set final; the push comes after the files and only when enabled;
\* a missing webhook URL or a failing POST raises nothing and leaves the
\* written files as they are.
C11_OutputOrdering == []C11_Order /\ [][C11_Step]_vars

\* A run that ended after a failed POST, its files written.
C11_Witness ==
    /\ pc = "done"
    /\ Len(posts) = 1
    /\ ~posts[1].ok
    /\ csv_file.written
    /\ json_file.written
    /\ json_file.records = posts[1].payload

----------------------------------------------------------------------------
(* C12 *)

\* What the configuration of the source makes of the item for field f: the
\* value that goes into record_data[f].
Supplied(e, f) ==
    LET src == config.sources[e.src]
    IN IF src.mode = "api"
       THEN IF f \in DOMAIN src.mapping /\ e.item.kind = "dict"
            THEN get_nested_value(e.item, src.mapping[f]) ELSE None
       ELSE IF f \in DOMAIN src.fields
            THEN html_value(css_getall(e.item.cells, src.fields[f])) ELSE None

\* C12: every record an extractor holds or has returned has for hash_id the
\* fingerprint of its own permit_number, address and source_name, whatever
\* the mapping or fields supply for hash_id.
C12_HashIsDerived ==
    /\ \A m \in 1..Len(records) : records[m].hash_id = generate_hash(records[m])
    /\ \A i \in 1..Len(returned) : \A m \in 1..Len(returned[i].records) :
          returned[i].records[m].hash_id = generate_hash(returned[i].records[m])

\* A returned record of source i for which the configuration supplied a
\* hash_id, a non-empty string other than the fingerprint.
GivenHashReplaced(i) ==
    \E n \in 1..Len(log) :
        /\ log[n].src = i
        /\ log[n].outcome = "kept"
        /\ InReturned(log[n])
        /\ Supplied(log[n], "hash_id").kind = "str"
        /\ Supplied(log[n], "hash_id").s # <<>>
        /\ Supplied(log[n], "hash_id").s # log[n].record[1].hash_id

\* Both extractors have returned such a record.
C12_Witness ==
    /\ pc = "loop"
    /\ Len(returned) = 2
    /\ config.sources[1].mode = "api"
    /\ config.sources[2].mode = "html"
    /\ GivenHashReplaced(1)
    /\ GivenHashReplaced(2)

----------------------------------------------------------------------------
(* C13 *)

\* C13: of the records either extractor builds with a parsable issue_date,
\* exactly those dated no earlier than days_back days before the day of the
\* run are returned, the one dated that very day included, at whatever time
\* of day the run takes place.
C13_BoundaryDayKept ==
    \A n \in 1..Len(log) :
        LET e == log[n] IN
        (e.outcome \in {"kept", "old"} /\ e.src <= Len(returned)
            /\ IssueParsable(e.record[1])) =>
                (InReturned(e) <=>
                    IssueDay(e.record[1]) >= DayOfRun - config.days_back)

----------------------------------------------------------------------------
(* C14 *)

ProvenanceKeys == {"source_name", "scraped_at"}

Restrict(f, keys) == [x \in (DOMAIN f) \ keys |-> f[x]]

\* The descriptor with the provenance keys taken out of its mapping/fields.
WithoutProvenanceKeys(src) ==
    IF src.mode = "api"
    THEN [src EXCEPT !.mapping = Restrict(src.mapping, ProvenanceKeys)]
    ELSE [src EXCEPT !.fields = Restrict(src.fields, ProvenanceKeys)]

\* What becomes of the logged item under descriptor src.
OutcomeUnder(src, e) ==
    IF src.mode = "api"
    THEN api_item(src, e.item, clock, e.cutoff).outcome
    ELSE html_row(src, e.item.cells, clock, e.cutoff).outcome

\* C14: every record an extractor holds or has returned for a source carries
\* the name of that source as source_name, and an item fares the same
\* whether or not the mapping/fields name source_name or scraped_at.
C14_ProvenanceKept ==
    /\ pc \in {"items", "ret"} =>
          \A m \in 1..Len(records) : records[m].source_name = Source.name
    /\ \A i \in 1..Len(returned) : \A m \in 1..Len(returned[i].records) :
          returned[i].records[m].source_name = config.sources[i].name
    /\ \A n \in 1..Len(log) :
          log[n].outcome =
              OutcomeUnder(WithoutProvenanceKeys(config.sources[log[n].src]), log[n])

====
